---- MODULE Spec2Model ----
(***************************************************************************)
(* The VotingV2 ledger (contracts/VotingV2.sol) as a state machine.        *)
(*                                                                         *)
(* Every external function of the contract is one action.  A call runs its *)
(* modifiers in the order they are written, then the require statements of *)
(* its body, then its assignments and its emit.  A failed require reverts  *)
(* the transaction: the storage and the event log stay as they were and    *)
(* the caller gets the revert string.  Calls are transactions, which the   *)
(* chain executes one after the other.                                     *)
(***************************************************************************)
EXTENDS Integers, Sequences, FiniteSets, TLC

\* ------------------------------------------------------------------ bounds
MaxElections == 2
MaxCandidates == 2
\* the latest time a schedule may name; the clock runs one tick past it, so
\* that every election is seen ended
MaxTime == 3
\* the length the event log may reach, the constructor's event included
MaxEvents == 5
\* block.timestamp of the block that holds the deployment
Genesis == 1

\* --------------------------------------------------------------- constants
Deployer == "deployer"
ZeroAddress == "0x0"
Callers == {Deployer, "alice"}
Addresses == Callers \cup {ZeroAddress}

ElectionIds == 0 .. (MaxElections + 1)
CandidateIds == 0 .. (MaxCandidates + 1)
Times == 0 .. MaxTime

\* title, department, description as createElection receives them
TextInputs == { <<"Board", "CS", "yearly">> }
NameInputs == { "Ann", "" }

\* --------------------------------------------------- revert strings, as coded
OK == "ok"
NotAuthorized == "Not authorized"
NotOwner == "Ownable: caller is not the owner"
NewOwnerZero == "Ownable: new owner is the zero address"
DoesNotExist == "Election does not exist"
NotStartedMsg == "Election not started"
EndedMsg == "Election ended"
AlreadyVotedMsg == "Already voted in this election"
NotActiveMsg == "Election is not active"
InvalidCandidateMsg == "Invalid candidate ID"
StartInPastMsg == "Start time must be in future"
EndBeforeStartMsg == "End time must be after start time"
StillActiveMsg == "Election still active"
CannotRemoveSelfMsg == "Cannot remove self"

VARIABLES
    electionCounter,   \* Counters.Counter electionCounter
    elections,         \* mapping(uint256 => Election)
    userVotes,         \* mapping(address => mapping(uint256 => bool))
    userVoteHistory,   \* mapping(address => VoteHistory[])
    admins,            \* mapping(address => bool)
    owner,             \* Ownable._owner
    events,            \* the events the contract has emitted, in order
    now                \* block.timestamp

ledger == <<electionCounter, elections, userVotes, userVoteHistory, admins, owner, events>>
vars == <<electionCounter, elections, userVotes, userVoteHistory, admins, owner, events, now>>

\* ------------------------------------------------------------ storage types
\* An unwritten mapping slot reads as zero.
ZeroCandidate == [id |-> 0, name |-> "", voteCount |-> 0]

ZeroElection ==
    [id |-> 0, title |-> "", department |-> "", description |-> "",
     startTime |-> 0, endTime |-> 0, isActive |-> FALSE,
     candidates |-> [c \in CandidateIds |-> ZeroCandidate],
     candidatesCount |-> 0]

VoteHistory(e, c, t) == [electionId |-> e, candidateId |-> c, timestamp |-> t]

ElectionCreated(e, title) == [type |-> "ElectionCreated", electionId |-> e, title |-> title]
CandidateAdded(e, c, name) == [type |-> "CandidateAdded", electionId |-> e, candidateId |-> c, name |-> name]
Voted(e, c, voter) == [type |-> "Voted", electionId |-> e, candidateId |-> c, voter |-> voter]
ElectionClosed(e) == [type |-> "ElectionClosed", electionId |-> e]
\* Ownable's event, emitted by the constructor and by every change of owner
OwnershipTransferred(prev, new) == [type |-> "OwnershipTransferred", previousOwner |-> prev, newOwner |-> new]

\* The contract's storage and log as one value.
S ==
    [electionCounter |-> electionCounter, elections |-> elections,
     userVotes |-> userVotes, userVoteHistory |-> userVoteHistory,
     admins |-> admins, owner |-> owner, events |-> events]

\* The state the constructor leaves.
constructor ==
    [electionCounter |-> 0,
     elections |-> [e \in ElectionIds |-> ZeroElection],
     userVotes |-> [a \in Addresses |-> [e \in ElectionIds |-> FALSE]],
     userVoteHistory |-> [a \in Addresses |-> <<>>],
     admins |-> [a \in Addresses |-> a = Deployer],
     owner |-> Deployer,
     events |-> << OwnershipTransferred(ZeroAddress, Deployer) >>]

\* ------------------------------------------------------- transaction outcome
Revert(s, msg) == [status |-> msg, s |-> s]
Commit(s) == [status |-> OK, s |-> s]

\* ------------------------------------------------------------------ modifiers
\* onlyAdmin with its require dropped
onlyAdmin_open(s, sender) == TRUE

onlyAdmin(s, sender) == s.admins[sender] \/ sender = s.owner

onlyOwner(s, sender) == s.owner = sender

electionExists(s, e) == s.elections[e].startTime > 0

\* validElectionTime without its first require
validElectionTime_noStart(s, e, t) ==
    IF ~(t <= s.elections[e].endTime) THEN EndedMsg
    ELSE OK

\* validElectionTime with the window open at its start (> for >=)
validElectionTime_strict(s, e, t) ==
    IF ~(t > s.elections[e].startTime) THEN NotStartedMsg
    ELSE IF ~(t <= s.elections[e].endTime) THEN EndedMsg
    ELSE OK

\* validElectionTime without its second require
validElectionTime_noEnd(s, e, t) ==
    IF ~(t >= s.elections[e].startTime) THEN NotStartedMsg
    ELSE OK

validElectionTime(s, e, t) ==
    IF ~(t >= s.elections[e].startTime) THEN NotStartedMsg
    ELSE IF ~(t <= s.elections[e].endTime) THEN EndedMsg
    ELSE OK

\* hasNotVoted with its require dropped
hasNotVoted_skipped(s, sender, e) == TRUE

hasNotVoted(s, sender, e) == ~s.userVotes[sender][e]

\* ------------------------------------------------------------------ functions
\* addAdmin behind onlyAdmin instead of onlyOwner
addAdmin_onlyAdmin(s, sender, a) ==
    IF ~onlyAdmin(s, sender) THEN Revert(s, NotAuthorized)
    ELSE Commit([s EXCEPT !.admins[a] = TRUE])

addAdmin(s, sender, a) ==
    IF ~onlyOwner(s, sender) THEN Revert(s, NotOwner)
    ELSE Commit([s EXCEPT !.admins[a] = TRUE])

\* removeAdmin without its require
removeAdmin_noSelfCheck(s, sender, a) ==
    IF ~onlyOwner(s, sender) THEN Revert(s, NotOwner)
    ELSE Commit([s EXCEPT !.admins[a] = FALSE])

removeAdmin(s, sender, a) ==
    IF ~onlyOwner(s, sender) THEN Revert(s, NotOwner)
    ELSE IF ~(a # sender) THEN Revert(s, CannotRemoveSelfMsg)
    ELSE Commit([s EXCEPT !.admins[a] = FALSE])

transferOwnership(s, sender, a) ==
    IF ~onlyOwner(s, sender) THEN Revert(s, NotOwner)
    ELSE IF ~(a # ZeroAddress) THEN Revert(s, NewOwnerZero)
    ELSE Commit([s EXCEPT !.owner = a,
                          !.events = Append(@, OwnershipTransferred(s.owner, a))])

renounceOwnership(s, sender) ==
    IF ~onlyOwner(s, sender) THEN Revert(s, NotOwner)
    ELSE Commit([s EXCEPT !.owner = ZeroAddress,
                          !.events = Append(@, OwnershipTransferred(s.owner, ZeroAddress))])

\* createElection that takes the id before it checks the schedule and leaves
\* on a bad schedule without reverting
createElection_idFirst(s, sender, text, start, end, t) ==
    IF ~onlyAdmin(s, sender) THEN Revert(s, NotAuthorized)
    ELSE
        LET electionId == s.electionCounter + 1
            taken == [s EXCEPT !.electionCounter = electionId]
        IN  IF ~(start > t) THEN [status |-> StartInPastMsg, s |-> taken]
            ELSE IF ~(end > start) THEN [status |-> EndBeforeStartMsg, s |-> taken]
            ELSE Commit([taken EXCEPT
                    !.elections[electionId] =
                        [@ EXCEPT !.id = electionId,
                                  !.title = text[1],
                                  !.department = text[2],
                                  !.description = text[3],
                                  !.startTime = start,
                                  !.endTime = end,
                                  !.isActive = TRUE,
                                  !.candidatesCount = 0],
                    !.events = Append(@, ElectionCreated(electionId, text[1]))])

\* createElection that takes a start at the current time (>= for >)
createElection_nowOk(s, sender, text, start, end, t) ==
    IF ~onlyAdmin(s, sender) THEN Revert(s, NotAuthorized)
    ELSE IF ~(start >= t) THEN Revert(s, StartInPastMsg)
    ELSE IF ~(end > start) THEN Revert(s, EndBeforeStartMsg)
    ELSE
        LET electionId == s.electionCounter + 1
        IN  Commit([s EXCEPT
                !.electionCounter = electionId,
                !.elections[electionId] =
                    [@ EXCEPT !.id = electionId,
                              !.title = text[1],
                              !.department = text[2],
                              !.description = text[3],
                              !.startTime = start,
                              !.endTime = end,
                              !.isActive = TRUE,
                              !.candidatesCount = 0],
                !.events = Append(@, ElectionCreated(electionId, text[1]))])

createElection(s, sender, text, start, end, t) ==
    IF ~onlyAdmin(s, sender) THEN Revert(s, NotAuthorized)
    ELSE IF ~(start > t) THEN Revert(s, StartInPastMsg)
    ELSE IF ~(end > start) THEN Revert(s, EndBeforeStartMsg)
    ELSE
        LET electionId == s.electionCounter + 1
        IN  Commit([s EXCEPT
                !.electionCounter = electionId,
                !.elections[electionId] =
                    [@ EXCEPT !.id = electionId,
                              !.title = text[1],
                              !.department = text[2],
                              !.description = text[3],
                              !.startTime = start,
                              !.endTime = end,
                              !.isActive = TRUE,
                              !.candidatesCount = 0],
                !.events = Append(@, ElectionCreated(electionId, text[1]))])

\* addCandidate with electionExists written before onlyAdmin
addCandidate_existsFirst(s, sender, e, name) ==
    IF ~electionExists(s, e) THEN Revert(s, DoesNotExist)
    ELSE IF ~onlyAdmin(s, sender) THEN Revert(s, NotAuthorized)
    ELSE IF ~s.elections[e].isActive THEN Revert(s, NotActiveMsg)
    ELSE
        LET candidateId == s.elections[e].candidatesCount + 1
        IN  Commit([s EXCEPT
                !.elections[e].candidatesCount = candidateId,
                !.elections[e].candidates[candidateId] =
                    [id |-> candidateId, name |-> name, voteCount |-> 0],
                !.events = Append(@, CandidateAdded(e, candidateId, name))])

\* addCandidate that is refused once a vote has been cast in the election
addCandidate_noVotesYet(s, sender, e, name) ==
    IF ~onlyAdmin(s, sender) THEN Revert(s, NotAuthorized)
    ELSE IF ~electionExists(s, e) THEN Revert(s, DoesNotExist)
    ELSE IF ~s.elections[e].isActive THEN Revert(s, NotActiveMsg)
    ELSE IF \E c \in CandidateIds : s.elections[e].candidates[c].voteCount > 0
        THEN Revert(s, NotActiveMsg)
    ELSE
        LET candidateId == s.elections[e].candidatesCount + 1
        IN  Commit([s EXCEPT
                !.elections[e].candidatesCount = candidateId,
                !.elections[e].candidates[candidateId] =
                    [id |-> candidateId, name |-> name, voteCount |-> 0],
                !.events = Append(@, CandidateAdded(e, candidateId, name))])

\* addCandidate without its require
addCandidate_noActiveCheck(s, sender, e, name) ==
    IF ~onlyAdmin(s, sender) THEN Revert(s, NotAuthorized)
    ELSE IF ~electionExists(s, e) THEN Revert(s, DoesNotExist)
    ELSE
        LET candidateId == s.elections[e].candidatesCount + 1
        IN  Commit([s EXCEPT
                !.elections[e].candidatesCount = candidateId,
                !.elections[e].candidates[candidateId] =
                    [id |-> candidateId, name |-> name, voteCount |-> 0],
                !.events = Append(@, CandidateAdded(e, candidateId, name))])

\* addCandidate that counts only the first candidate (writes the slot at
\* candidatesCount once there is one)
addCandidate_sameSlot(s, sender, e, name) ==
    IF ~onlyAdmin(s, sender) THEN Revert(s, NotAuthorized)
    ELSE IF ~electionExists(s, e) THEN Revert(s, DoesNotExist)
    ELSE IF ~s.elections[e].isActive THEN Revert(s, NotActiveMsg)
    ELSE
        LET candidateId == IF s.elections[e].candidatesCount = 0 THEN 1
                           ELSE s.elections[e].candidatesCount
        IN  Commit([s EXCEPT
                !.elections[e].candidatesCount = candidateId,
                !.elections[e].candidates[candidateId] =
                    [id |-> candidateId, name |-> name, voteCount |-> 0],
                !.events = Append(@, CandidateAdded(e, candidateId, name))])

addCandidate(s, sender, e, name) ==
    IF ~onlyAdmin(s, sender) THEN Revert(s, NotAuthorized)
    ELSE IF ~electionExists(s, e) THEN Revert(s, DoesNotExist)
    ELSE IF ~s.elections[e].isActive THEN Revert(s, NotActiveMsg)
    ELSE
        LET candidateId == s.elections[e].candidatesCount + 1
        IN  Commit([s EXCEPT
                !.elections[e].candidatesCount = candidateId,
                !.elections[e].candidates[candidateId] =
                    [id |-> candidateId, name |-> name, voteCount |-> 0],
                !.events = Append(@, CandidateAdded(e, candidateId, name))])

\* vote that is refused once anybody has voted in the election
vote_onePerElection(s, sender, e, c, t) ==
    IF ~electionExists(s, e) THEN Revert(s, DoesNotExist)
    ELSE IF validElectionTime(s, e, t) # OK THEN Revert(s, validElectionTime(s, e, t))
    ELSE IF \E u \in DOMAIN s.userVotes : s.userVotes[u][e] THEN Revert(s, AlreadyVotedMsg)
    ELSE IF ~s.elections[e].isActive THEN Revert(s, NotActiveMsg)
    ELSE IF ~(c <= s.elections[e].candidatesCount) THEN Revert(s, InvalidCandidateMsg)
    ELSE Commit([s EXCEPT
            !.userVotes[sender][e] = TRUE,
            !.userVoteHistory[sender] = Append(@, VoteHistory(e, c, t)),
            !.elections[e].candidates[c].voteCount = @ + 1,
            !.events = Append(@, Voted(e, c, sender))])

\* vote without its push to the voter's history
vote_noHistory(s, sender, e, c, t) ==
    IF ~electionExists(s, e) THEN Revert(s, DoesNotExist)
    ELSE IF validElectionTime(s, e, t) # OK THEN Revert(s, validElectionTime(s, e, t))
    ELSE IF ~hasNotVoted(s, sender, e) THEN Revert(s, AlreadyVotedMsg)
    ELSE IF ~s.elections[e].isActive THEN Revert(s, NotActiveMsg)
    ELSE IF ~(c <= s.elections[e].candidatesCount) THEN Revert(s, InvalidCandidateMsg)
    ELSE Commit([s EXCEPT
            !.userVotes[sender][e] = TRUE,
            !.elections[e].candidates[c].voteCount = @ + 1,
            !.events = Append(@, Voted(e, c, sender))])

\* vote without the validElectionTime modifier
vote_anytime(s, sender, e, c, t) ==
    IF ~electionExists(s, e) THEN Revert(s, DoesNotExist)
    ELSE IF ~hasNotVoted(s, sender, e) THEN Revert(s, AlreadyVotedMsg)
    ELSE IF ~s.elections[e].isActive THEN Revert(s, NotActiveMsg)
    ELSE IF ~(c <= s.elections[e].candidatesCount) THEN Revert(s, InvalidCandidateMsg)
    ELSE Commit([s EXCEPT
            !.userVotes[sender][e] = TRUE,
            !.userVoteHistory[sender] = Append(@, VoteHistory(e, c, t)),
            !.elections[e].candidates[c].voteCount = @ + 1,
            !.events = Append(@, Voted(e, c, sender))])

\* vote without its emit
vote_silent(s, sender, e, c, t) ==
    IF ~electionExists(s, e) THEN Revert(s, DoesNotExist)
    ELSE IF validElectionTime(s, e, t) # OK THEN Revert(s, validElectionTime(s, e, t))
    ELSE IF ~hasNotVoted(s, sender, e) THEN Revert(s, AlreadyVotedMsg)
    ELSE IF ~s.elections[e].isActive THEN Revert(s, NotActiveMsg)
    ELSE IF ~(c <= s.elections[e].candidatesCount) THEN Revert(s, InvalidCandidateMsg)
    ELSE Commit([s EXCEPT
            !.userVotes[sender][e] = TRUE,
            !.userVoteHistory[sender] = Append(@, VoteHistory(e, c, t)),
            !.elections[e].candidates[c].voteCount = @ + 1])

\* vote that keeps only the latest ballot in the voter's history
vote_resetsHistory(s, sender, e, c, t) ==
    IF ~electionExists(s, e) THEN Revert(s, DoesNotExist)
    ELSE IF validElectionTime(s, e, t) # OK THEN Revert(s, validElectionTime(s, e, t))
    ELSE IF ~hasNotVoted(s, sender, e) THEN Revert(s, AlreadyVotedMsg)
    ELSE IF ~s.elections[e].isActive THEN Revert(s, NotActiveMsg)
    ELSE IF ~(c <= s.elections[e].candidatesCount) THEN Revert(s, InvalidCandidateMsg)
    ELSE Commit([s EXCEPT
            !.userVotes[sender][e] = TRUE,
            !.userVoteHistory[sender] = << VoteHistory(e, c, t) >>,
            !.elections[e].candidates[c].voteCount = @ + 1,
            !.events = Append(@, Voted(e, c, sender))])

\* vote that never sets the voter's flag
vote_noFlag(s, sender, e, c, t) ==
    IF ~electionExists(s, e) THEN Revert(s, DoesNotExist)
    ELSE IF validElectionTime(s, e, t) # OK THEN Revert(s, validElectionTime(s, e, t))
    ELSE IF ~hasNotVoted(s, sender, e) THEN Revert(s, AlreadyVotedMsg)
    ELSE IF ~s.elections[e].isActive THEN Revert(s, NotActiveMsg)
    ELSE IF ~(c <= s.elections[e].candidatesCount) THEN Revert(s, InvalidCandidateMsg)
    ELSE Commit([s EXCEPT
            !.userVoteHistory[sender] = Append(@, VoteHistory(e, c, t)),
            !.elections[e].candidates[c].voteCount = @ + 1,
            !.events = Append(@, Voted(e, c, sender))])

\* vote with hasNotVoted written before validElectionTime
vote_votedFirst(s, sender, e, c, t) ==
    IF ~electionExists(s, e) THEN Revert(s, DoesNotExist)
    ELSE IF ~hasNotVoted(s, sender, e) THEN Revert(s, AlreadyVotedMsg)
    ELSE IF validElectionTime(s, e, t) # OK THEN Revert(s, validElectionTime(s, e, t))
    ELSE IF ~s.elections[e].isActive THEN Revert(s, NotActiveMsg)
    ELSE IF ~(c <= s.elections[e].candidatesCount) THEN Revert(s, InvalidCandidateMsg)
    ELSE Commit([s EXCEPT
            !.userVotes[sender][e] = TRUE,
            !.userVoteHistory[sender] = Append(@, VoteHistory(e, c, t)),
            !.elections[e].candidates[c].voteCount = @ + 1,
            !.events = Append(@, Voted(e, c, sender))])

\* vote behind the onlyAdmin modifier
vote_onlyAdmin(s, sender, e, c, t) ==
    IF ~onlyAdmin(s, sender) THEN Revert(s, NotAuthorized)
    ELSE IF ~electionExists(s, e) THEN Revert(s, DoesNotExist)
    ELSE IF validElectionTime(s, e, t) # OK THEN Revert(s, validElectionTime(s, e, t))
    ELSE IF ~hasNotVoted(s, sender, e) THEN Revert(s, AlreadyVotedMsg)
    ELSE IF ~s.elections[e].isActive THEN Revert(s, NotActiveMsg)
    ELSE IF ~(c <= s.elections[e].candidatesCount) THEN Revert(s, InvalidCandidateMsg)
    ELSE Commit([s EXCEPT
            !.userVotes[sender][e] = TRUE,
            !.userVoteHistory[sender] = Append(@, VoteHistory(e, c, t)),
            !.elections[e].candidates[c].voteCount = @ + 1,
            !.events = Append(@, Voted(e, c, sender))])

\* vote that counts the ballot for the last candidate added
vote_lastCandidate(s, sender, e, c, t) ==
    IF ~electionExists(s, e) THEN Revert(s, DoesNotExist)
    ELSE IF validElectionTime(s, e, t) # OK THEN Revert(s, validElectionTime(s, e, t))
    ELSE IF ~hasNotVoted(s, sender, e) THEN Revert(s, AlreadyVotedMsg)
    ELSE IF ~s.elections[e].isActive THEN Revert(s, NotActiveMsg)
    ELSE IF ~(c <= s.elections[e].candidatesCount) THEN Revert(s, InvalidCandidateMsg)
    ELSE Commit([s EXCEPT
            !.userVotes[sender][e] = TRUE,
            !.userVoteHistory[sender] = Append(@, VoteHistory(e, c, t)),
            !.elections[e].candidates[s.elections[e].candidatesCount].voteCount = @ + 1,
            !.events = Append(@, Voted(e, c, sender))])

vote(s, sender, e, c, t) ==
    IF ~electionExists(s, e) THEN Revert(s, DoesNotExist)
    ELSE IF validElectionTime(s, e, t) # OK THEN Revert(s, validElectionTime(s, e, t))
    ELSE IF ~hasNotVoted(s, sender, e) THEN Revert(s, AlreadyVotedMsg)
    ELSE IF ~s.elections[e].isActive THEN Revert(s, NotActiveMsg)
    ELSE IF ~(c <= s.elections[e].candidatesCount) THEN Revert(s, InvalidCandidateMsg)
    ELSE Commit([s EXCEPT
            !.userVotes[sender][e] = TRUE,
            !.userVoteHistory[sender] = Append(@, VoteHistory(e, c, t)),
            !.elections[e].candidates[c].voteCount = @ + 1,
            !.events = Append(@, Voted(e, c, sender))])

\* closeElection without its first require
closeElection_early(s, sender, e, t) ==
    IF ~onlyAdmin(s, sender) THEN Revert(s, NotAuthorized)
    ELSE IF ~electionExists(s, e) THEN Revert(s, DoesNotExist)
    ELSE IF ~s.elections[e].isActive THEN Revert(s, NotActiveMsg)
    ELSE Commit([s EXCEPT
            !.elections[e].isActive = FALSE,
            !.events = Append(@, ElectionClosed(e))])

\* closeElection without its emit
closeElection_silent(s, sender, e, t) ==
    IF ~onlyAdmin(s, sender) THEN Revert(s, NotAuthorized)
    ELSE IF ~electionExists(s, e) THEN Revert(s, DoesNotExist)
    ELSE IF ~(t > s.elections[e].endTime) THEN Revert(s, StillActiveMsg)
    ELSE IF ~s.elections[e].isActive THEN Revert(s, NotActiveMsg)
    ELSE Commit([s EXCEPT !.elections[e].isActive = FALSE])

\* closeElection that also records the closing time as the end
closeElection_stampsEnd(s, sender, e, t) ==
    IF ~onlyAdmin(s, sender) THEN Revert(s, NotAuthorized)
    ELSE IF ~electionExists(s, e) THEN Revert(s, DoesNotExist)
    ELSE IF ~(t > s.elections[e].endTime) THEN Revert(s, StillActiveMsg)
    ELSE IF ~s.elections[e].isActive THEN Revert(s, NotActiveMsg)
    ELSE Commit([s EXCEPT
            !.elections[e].isActive = FALSE,
            !.elections[e].endTime = t,
            !.events = Append(@, ElectionClosed(e))])

\* closeElection without its second require
closeElection_noActiveCheck(s, sender, e, t) ==
    IF ~onlyAdmin(s, sender) THEN Revert(s, NotAuthorized)
    ELSE IF ~electionExists(s, e) THEN Revert(s, DoesNotExist)
    ELSE IF ~(t > s.elections[e].endTime) THEN Revert(s, StillActiveMsg)
    ELSE Commit([s EXCEPT
            !.elections[e].isActive = FALSE,
            !.events = Append(@, ElectionClosed(e))])

closeElection(s, sender, e, t) ==
    IF ~onlyAdmin(s, sender) THEN Revert(s, NotAuthorized)
    ELSE IF ~electionExists(s, e) THEN Revert(s, DoesNotExist)
    ELSE IF ~(t > s.elections[e].endTime) THEN Revert(s, StillActiveMsg)
    ELSE IF ~s.elections[e].isActive THEN Revert(s, NotActiveMsg)
    ELSE Commit([s EXCEPT
            !.elections[e].isActive = FALSE,
            !.events = Append(@, ElectionClosed(e))])

\* ------------------------------------------------------------------ views
\* A view function returns: it has no require, so its outcome is always OK.
Return(v) == [status |-> OK, value |-> v]

getElection(s, e) ==
    LET election == s.elections[e]
    IN  Return(<<election.id, election.title, election.department,
                 election.description, election.startTime, election.endTime,
                 election.isActive, election.candidatesCount>>)

getCandidate(s, e, c) ==
    LET candidate == s.elections[e].candidates[c]
    IN  Return(<<candidate.id, candidate.name, candidate.voteCount>>)

isElectionActive(s, e, t) ==
    LET election == s.elections[e]
    IN  Return(election.isActive /\ t <= election.endTime)

hasUserVoted(s, e, user) == s.userVotes[user][e]

getUserTotalVotes(s, user) == Len(s.userVoteHistory[user])

\* ------------------------------------------------------------------ actions
\* A transaction: the function's outcome becomes the storage and the log.  A
\* reverted transaction leaves no trace in either, so it is a stuttering step;
\* its revert string is the status of the function's outcome.
Transact(r) ==
    /\ electionCounter' = r.s.electionCounter
    /\ elections' = r.s.elections
    /\ userVotes' = r.s.userVotes
    /\ userVoteHistory' = r.s.userVoteHistory
    /\ admins' = r.s.admins
    /\ owner' = r.s.owner
    /\ events' = r.s.events
    /\ UNCHANGED now

Init ==
    /\ electionCounter = constructor.electionCounter
    /\ elections = constructor.elections
    /\ userVotes = constructor.userVotes
    /\ userVoteHistory = constructor.userVoteHistory
    /\ admins = constructor.admins
    /\ owner = constructor.owner
    /\ events = constructor.events
    /\ now = Genesis

\* Room left under the bounds for the call to commit.
Room == Len(events) < MaxEvents

CallAddAdmin ==
    \E sender \in Callers, a \in Callers :
        Transact(addAdmin(S, sender, a))

CallRemoveAdmin ==
    \E sender \in Callers, a \in Callers :
        Transact(removeAdmin(S, sender, a))

CallTransferOwnership ==
    /\ Room
    /\ \E sender \in Callers, a \in Addresses :
        Transact(transferOwnership(S, sender, a))

CallRenounceOwnership ==
    /\ Room
    /\ \E sender \in Callers :
        Transact(renounceOwnership(S, sender))

CallCreateElection ==
    /\ Room
    /\ electionCounter < MaxElections
    /\ \E sender \in Callers, text \in TextInputs, start \in Times, end \in Times :
        Transact(createElection(S, sender, text, start, end, now))

CallAddCandidate ==
    /\ Room
    /\ \E sender \in Callers, e \in ElectionIds, name \in NameInputs :
        /\ elections[e].candidatesCount < MaxCandidates
        /\ Transact(addCandidate(S, sender, e, name))

CallVote ==
    /\ Room
    /\ \E sender \in Callers, e \in ElectionIds, c \in CandidateIds :
        Transact(vote(S, sender, e, c, now))

CallCloseElection ==
    /\ Room
    /\ \E sender \in Callers, e \in ElectionIds :
        Transact(closeElection(S, sender, e, now))

\* A later block: block.timestamp never goes back.
Tick ==
    /\ now <= MaxTime
    /\ now' = now + 1
    /\ UNCHANGED ledger

Next ==
    \/ CallAddAdmin
    \/ CallRemoveAdmin
    \/ CallTransferOwnership
    \/ CallRenounceOwnership
    \/ CallCreateElection
    \/ CallAddCandidate
    \/ CallVote
    \/ CallCloseElection
    \/ Tick

Spec == Init /\ [][Next]_vars

\* ----------------------------------------------------- staggered elections
\* The same contract run one block longer with schedules that may end at
\* different times, so that one election is past its end while another is
\* still open.  The admin set and the owner stay as the constructor left them.
LateTimes == 0 .. (MaxTime + 1)

CallCreateElectionLate ==
    /\ Room
    /\ electionCounter < MaxElections
    /\ \E sender \in Callers, text \in TextInputs, start \in LateTimes, end \in LateTimes :
        Transact(createElection(S, sender, text, start, end, now))

TickLate ==
    /\ now <= MaxTime + 1
    /\ now' = now + 1
    /\ UNCHANGED ledger

NextLate ==
    \/ CallCreateElectionLate
    \/ CallAddCandidate
    \/ CallVote
    \/ CallCloseElection
    \/ TickLate

SpecLate == Init /\ [][NextLate]_vars

\* =================================================================== claims
\* What the specification calls an existing election, a valid candidate and a
\* request that is valid but for the voter's earlier vote.
Exists(e) == e \in 1 .. electionCounter
InWindow(e) == elections[e].startTime <= now /\ now <= elections[e].endTime
ValidCandidate(e, c) == c \in 1 .. elections[e].candidatesCount
OtherwiseValid(e, c) ==
    Exists(e) /\ InWindow(e) /\ elections[e].isActive /\ ValidCandidate(e, c)

\* The Voted events of voter v in election e: the successful vote(e, *, v) calls.
VotedEvents(v, e) ==
    { i \in DOMAIN events :
        /\ events[i].type = "Voted"
        /\ events[i].electionId = e
        /\ events[i].voter = v }

\* The history entries, over all voters, whose electionId is e.
HistoryEntries(e) ==
    { p \in Addresses \X (1 .. MaxEvents + 1) :
        /\ p[2] \in DOMAIN userVoteHistory[p[1]]
        /\ userVoteHistory[p[1]][p[2]].electionId = e }

RECURSIVE SumVoteCount(_, _)
\* voteCount summed over the candidates 1 .. k of election el
SumVoteCount(el, k) ==
    IF k = 0 THEN 0 ELSE el.candidates[k].voteCount + SumVoteCount(el, k - 1)

\* C1: for every election and every voter at most one vote call ever
\* succeeds: the log never holds two Voted events of one voter in one election.
C1_AtMostOneVote ==
    \A v \in Callers, e \in ElectionIds : Cardinality(VotedEvents(v, e)) <= 1

\* Two voters have each voted once in the same election.
C1_Witness ==
    \E e \in ElectionIds :
        \A v \in Callers : Cardinality(VotedEvents(v, e)) = 1

\* C2: two vote calls of one identity for one election, both valid but for
\* each other, executed in either order by the chain: the first succeeds, the
\* second reverts with "Already voted in this election" and changes nothing,
\* and the tally of the first call's candidate is one higher.
C2_ConcurrentVotes ==
    [](\A v \in Callers, e \in ElectionIds, c1 \in CandidateIds, c2 \in CandidateIds :
        (OtherwiseValid(e, c1) /\ OtherwiseValid(e, c2) /\ ~userVotes[v][e]) =>
            LET r1 == vote(S, v, e, c1, now)
                r2 == vote(r1.s, v, e, c2, now)
            IN  /\ r1.status = OK
                /\ r2.status = AlreadyVotedMsg
                /\ r2.s = r1.s
                /\ r2.s.elections[e].candidates[c1].voteCount =
                       elections[e].candidates[c1].voteCount + 1
                /\ \A c \in CandidateIds \ {c1} :
                       r2.s.elections[e].candidates[c].voteCount =
                           elections[e].candidates[c].voteCount)

\* One of the two calls has been executed and the other, still valid but for
\* the first, is refused.
C2_Witness ==
    \E v \in Callers, e \in ElectionIds :
        /\ Cardinality(VotedEvents(v, e)) = 1
        /\ OtherwiseValid(e, 1)
        /\ elections[e].candidates[1].voteCount = 1
        /\ vote(S, v, e, 1, now).status = AlreadyVotedMsg

\* C3 as stated: once v has voted in e, every later vote(e, c, v), at any
\* later time, reverts with "Already voted in this election".
C3_AlwaysAlreadyVoted ==
    \A v \in Callers, e \in ElectionIds, c \in CandidateIds :
        userVotes[v][e] => vote(S, v, e, c, now).status = AlreadyVotedMsg

\* C3 amended: once v has voted in e, every later vote(e, c, v) fails: with
\* "Already voted in this election" up to endTime, with "Election ended" after.
C3_NeverAgain ==
    \A v \in Callers, e \in ElectionIds, c \in CandidateIds :
        userVotes[v][e] =>
            vote(S, v, e, c, now).status =
                IF now <= elections[e].endTime THEN AlreadyVotedMsg ELSE EndedMsg

\* A voter who has voted, once the election's window is over.
C3_Witness ==
    \E v \in Callers, e \in ElectionIds :
        userVotes[v][e] /\ now > elections[e].endTime

\* C4 as stated: for every election the voteCount of its candidates
\* 1 .. candidatesCount sums to the number of history entries of the election.
C4_TallyMatchesHistory ==
    \A e \in ElectionIds :
        SumVoteCount(elections[e], elections[e].candidatesCount) =
            Cardinality(HistoryEntries(e))

\* C5 as stated: a vote that passes every earlier check and names a candidate
\* outside 1 .. candidatesCount reverts with "Invalid candidate ID" and
\* records nothing.
C5_InvalidCandidateRejected ==
    \A v \in Callers, e \in ElectionIds, c \in CandidateIds :
        (Exists(e) /\ InWindow(e) /\ ~userVotes[v][e] /\ elections[e].isActive
            /\ ~ValidCandidate(e, c)) =>
            /\ vote(S, v, e, c, now).status = InvalidCandidateMsg
            /\ vote(S, v, e, c, now).s = S

\* The preconditions of vote a request violates, in the specification's order.
Violations(v, e, c) ==
    << ~Exists(e),
       now < elections[e].startTime,
       now > elections[e].endTime,
       userVotes[v][e],
       ~elections[e].isActive,
       ~ValidCandidate(e, c) >>

ViolationMsg ==
    << DoesNotExist, NotStartedMsg, EndedMsg, AlreadyVotedMsg, NotActiveMsg,
       InvalidCandidateMsg >>

\* C6: a vote that violates several preconditions reverts with the message of
\* the first one violated in the order not found, not started, ended, already
\* voted, closed, invalid candidate.
C6_FirstViolationReported ==
    \A v \in Callers, e \in ElectionIds, c \in CandidateIds :
        LET viol == Violations(v, e, c)
            bad == { i \in 1 .. 6 : viol[i] }
        IN  Cardinality(bad) >= 2 =>
                \E i \in bad :
                    /\ \A j \in bad : i <= j
                    /\ vote(S, v, e, c, now).status = ViolationMsg[i]

\* A voter who has voted asks again after endTime with a candidate id out of
\* range, and is told that the election has ended.
C6_Witness ==
    \E v \in Callers, e \in ElectionIds :
        /\ Exists(e)
        /\ userVotes[v][e]
        /\ now > elections[e].endTime
        /\ vote(S, v, e, MaxCandidates + 1, now).status = EndedMsg

\* C7: for an existing active election, a first vote for a valid candidate
\* reverts with "Election not started" before startTime, succeeds from
\* startTime to endTime, both included, and reverts with "Election ended"
\* from endTime + 1 on.
C7_InclusiveWindow ==
    \A v \in Callers, e \in ElectionIds, c \in CandidateIds :
        (Exists(e) /\ elections[e].isActive /\ ~userVotes[v][e] /\ ValidCandidate(e, c)) =>
            vote(S, v, e, c, now).status =
                IF now < elections[e].startTime THEN NotStartedMsg
                ELSE IF now >= elections[e].endTime + 1 THEN EndedMsg
                ELSE OK

\* A vote for a valid candidate was cast at the very startTime of its election.
C7_Witness ==
    \E v \in Callers, i \in 1 .. MaxEvents :
        /\ i \in DOMAIN userVoteHistory[v]
        /\ userVoteHistory[v][i].candidateId >= 1
        /\ userVoteHistory[v][i].timestamp =
               elections[userVoteHistory[v][i].electionId].startTime

\* C8: for an existing election, a voter who has not voted in it and a valid
\* candidate, vote succeeds exactly when isActive holds and the time is within
\* startTime .. endTime, whoever the voter is.
C8_VotableIff ==
    \A v \in Callers, e \in ElectionIds, c \in CandidateIds :
        (Exists(e) /\ ~userVotes[v][e] /\ ValidCandidate(e, c)) =>
            (vote(S, v, e, c, now).status = OK
                <=> (elections[e].isActive /\ InWindow(e)))

\* Someone who is neither an admin nor the owner has voted for a valid
\* candidate.
C8_Witness ==
    \E v \in Callers, e \in ElectionIds, c \in 1 .. MaxCandidates :
        /\ ~admins[v]
        /\ v # owner
        /\ \E i \in VotedEvents(v, e) : events[i].candidateId = c

\* The step appended a Voted event: a vote call succeeded.
VoteCommitted ==
    /\ Len(events') = Len(events) + 1
    /\ events'[Len(events')].type = "Voted"

\* What a successful vote(e, c, v) at time now changes and what it leaves.
VoteFrame(v, e, c) ==
    /\ ~userVotes[v][e]
    /\ userVotes'[v][e]
    /\ \A a \in Addresses, x \in ElectionIds :
           <<a, x>> # <<v, e>> => userVotes'[a][x] = userVotes[a][x]
    /\ userVoteHistory'[v] = Append(userVoteHistory[v], VoteHistory(e, c, now))
    /\ \A a \in Addresses \ {v} : userVoteHistory'[a] = userVoteHistory[a]
    /\ elections'[e].candidates[c].voteCount = elections[e].candidates[c].voteCount + 1
    /\ \A x \in ElectionIds, k \in CandidateIds :
           /\ <<x, k>> # <<e, c>> =>
                  elections'[x].candidates[k].voteCount = elections[x].candidates[k].voteCount
           /\ elections'[x].candidates[k].id = elections[x].candidates[k].id
           /\ elections'[x].candidates[k].name = elections[x].candidates[k].name
    /\ \A x \in ElectionIds :
           /\ elections'[x].id = elections[x].id
           /\ elections'[x].title = elections[x].title
           /\ elections'[x].department = elections[x].department
           /\ elections'[x].description = elections[x].description
           /\ elections'[x].startTime = elections[x].startTime
           /\ elections'[x].endTime = elections[x].endTime
           /\ elections'[x].isActive = elections[x].isActive
           /\ elections'[x].candidatesCount = elections[x].candidatesCount
    /\ electionCounter' = electionCounter
    /\ admins' = admins
    /\ owner' = owner

\* C9: a successful vote(e, c, v) at time t sets the flag of (v, e), appends
\* {e, c, t} to the end of v's history and raises the voteCount of candidate c
\* of e by one; every other flag, history, tally, election field, the election
\* counter and the admin set stay as they were.
C9_VoteFrame ==
    [][ VoteCommitted =>
            LET ev == events'[Len(events')]
            IN  VoteFrame(ev.voter, ev.electionId, ev.candidateId) ]_vars

\* A vote has been counted for a candidate of an election that has another
\* candidate, or beside another election.
C9_Witness ==
    \E e \in ElectionIds, c \in 1 .. MaxCandidates :
        /\ elections[e].candidates[c].voteCount = 1
        /\ (elections[e].candidatesCount >= 2 \/ electionCounter >= 2)

\* The call failed and left the storage or the log changed.
Botched(r) == r.status # OK /\ r.s # S

\* C10: a failing createElection, addCandidate, vote, closeElection, addAdmin
\* or removeAdmin, whatever its caller and arguments, leaves the election
\* counter, the elections, the candidates and tallies, the vote flags, the
\* histories, the admin set and the event log as they were.
C10_FailureChangesNothing ==
    [](\A sender \in Callers :
        /\ \A a \in Callers :
               /\ ~Botched(addAdmin(S, sender, a))
               /\ ~Botched(removeAdmin(S, sender, a))
        /\ \A text \in TextInputs, start \in Times, end \in Times :
               ~Botched(createElection(S, sender, text, start, end, now))
        /\ \A e \in ElectionIds :
               /\ \A name \in NameInputs : ~Botched(addCandidate(S, sender, e, name))
               /\ \A c \in CandidateIds : ~Botched(vote(S, sender, e, c, now))
               /\ ~Botched(closeElection(S, sender, e, now)))

\* A ledger with an election and a recorded vote, on which a call of each of
\* the six functions fails.
C10_Witness ==
    /\ electionCounter >= 1
    /\ \E v \in Callers : userVotes[v][1] /\ vote(S, v, 1, 1, now).status # OK
    /\ \E sender \in Callers :
           /\ createElection(S, sender, <<"Board", "CS", "yearly">>, now, now, now).status # OK
           /\ addCandidate(S, sender, 0, "Ann").status # OK
           /\ closeElection(S, sender, 1, now).status = StillActiveMsg
           /\ addAdmin(S, sender, sender).status # OK
           /\ removeAdmin(S, sender, sender).status # OK

\* Text triples a caller may pass to createElection, empty ones included.
TextCases == TextInputs \cup { <<"", "", "">>, <<"Board", "", "yearly">> }

\* The caller's flag in the admins mapping is not set.
Unflagged(sender) == ~admins[sender]

\* Every createElection, addCandidate and closeElection of the caller is
\* refused as unauthorized, and so is its addAdmin, whatever the arguments.
RefusedEverywhere(sender) ==
    /\ \A text \in TextCases, start \in Times, end \in Times :
           createElection(S, sender, text, start, end, now).status = NotAuthorized
    /\ \A e \in ElectionIds :
           /\ \A name \in NameInputs :
                  addCandidate(S, sender, e, name).status = NotAuthorized
           /\ closeElection(S, sender, e, now).status = NotAuthorized
    /\ \A a \in Callers : addAdmin(S, sender, a).status = NotOwner

\* C11 as stated: a caller whose admin flag is not set is refused as
\* unauthorized by createElection, addCandidate, closeElection and addAdmin,
\* whatever the arguments.
C11_UnflaggedRefused ==
    \A sender \in Callers : Unflagged(sender) => RefusedEverywhere(sender)

\* C11: a caller whose admin flag is not set and who is not the owner is
\* refused as unauthorized by createElection, addCandidate, closeElection and
\* addAdmin, whatever the arguments: a bad schedule, an unknown election id or
\* an empty text does not change the answer.
C11_OutsiderRefused ==
    \A sender \in Callers :
        Unflagged(sender) /\ sender # owner => RefusedEverywhere(sender)

\* An outsider faces a ledger with an election: its calls with a bad schedule,
\* an unknown id and an empty name are all refused as unauthorized.
C11_Witness ==
    /\ electionCounter >= 1
    /\ \E sender \in Callers :
           /\ Unflagged(sender) /\ sender # owner
           /\ createElection(S, sender, <<"", "", "">>, 0, 0, now).status = NotAuthorized
           /\ addCandidate(S, sender, MaxElections + 1, "").status = NotAuthorized
           /\ closeElection(S, sender, 1, now).status = NotAuthorized

\* The caller has a createElection, addCandidate or closeElection that succeeds
\* on the ledger as it is.
ManagesSomething(sender) ==
    \/ \E text \in TextCases, start \in Times, end \in Times :
           createElection(S, sender, text, start, end, now).status = OK
    \/ \E e \in ElectionIds :
           \/ \E name \in NameInputs : addCandidate(S, sender, e, name).status = OK
           \/ closeElection(S, sender, e, now).status = OK

\* C12 as stated: createElection, addCandidate and closeElection succeed only
\* for a caller whose admin flag is true at the moment of the call.
C12_OnlyFlaggedManage ==
    \A sender \in Callers : ManagesSomething(sender) => admins[sender]

\* C12: createElection, addCandidate and closeElection succeed only for a
\* caller whose admin flag is true at the moment of the call or who is the
\* owner at that moment; for any other caller none of them succeeds.
C12_OnlyAuthorizedManage ==
    \A sender \in Callers :
        ManagesSomething(sender) => admins[sender] \/ sender = owner

\* Two callers manage an election that exists: an admin who is not the owner
\* and an owner whose admin flag is false.
C12_Witness ==
    /\ electionCounter >= 1
    /\ \E sender \in Callers :
           admins[sender] /\ sender # owner /\ ManagesSomething(sender)
    /\ \E sender \in Callers :
           ~admins[sender] /\ sender = owner /\ ManagesSomething(sender)

\* The call failed and changed nothing.
Refused(r) == r.status # OK /\ r.s = S

\* No createElection, addCandidate, vote or closeElection on the ledger as it
\* is changes an admin flag, and no addAdmin or removeAdmin of a caller other
\* than the owner succeeds or changes anything.
AdminSetGuarded ==
    \A sender \in Callers :
        /\ sender # owner =>
               \A a \in Callers : /\ Refused(addAdmin(S, sender, a))
                                  /\ Refused(removeAdmin(S, sender, a))
        /\ \A text \in TextCases, start \in Times, end \in Times :
               createElection(S, sender, text, start, end, now).s.admins = admins
        /\ \A e \in ElectionIds :
               /\ \A name \in NameInputs :
                      addCandidate(S, sender, e, name).s.admins = admins
               /\ \A c \in CandidateIds :
                      vote(S, sender, e, c, now).s.admins = admins
               /\ closeElection(S, sender, e, now).s.admins = admins

\* A step that changes the admin set sets or clears one flag, as addAdmin or
\* removeAdmin of the owner does, and leaves all else as it was.
AdminSetStep ==
    admins' # admins =>
        /\ owner \in Callers
        /\ \E a \in Callers :
               \/ admins' = [admins EXCEPT ![a] = TRUE]
               \/ a # owner /\ admins' = [admins EXCEPT ![a] = FALSE]
        /\ UNCHANGED <<electionCounter, elections, userVotes, userVoteHistory,
                       owner, events, now>>

\* C13: the admin set changes only through a successful addAdmin or
\* removeAdmin of the owner; addAdmin and removeAdmin of anyone else, a
\* non-owner admin included, fail and change nothing; createElection,
\* addCandidate, vote and closeElection never change an admin flag.
C13_AdminSetOwnerOnly == [] AdminSetGuarded /\ [][AdminSetStep]_vars

\* An admin who is not the owner faces a ledger with an election: its addAdmin
\* and removeAdmin are refused.
C13_Witness ==
    /\ electionCounter >= 1
    /\ \E sender \in Callers :
           /\ admins[sender] /\ sender # owner
           /\ Refused(addAdmin(S, sender, sender))
           /\ Refused(removeAdmin(S, sender, owner))

\* The owner's removeAdmin of itself is refused as a self-removal and changes
\* nothing.
SelfRemovalDenied ==
    owner # ZeroAddress => removeAdmin(S, owner, owner) = Revert(S, CannotRemoveSelfMsg)

\* Ownership is where the constructor put it: the log holds no transfer but
\* the constructor's.
NeverTransferred ==
    \A i \in 2 .. Len(events) : events[i].type # "OwnershipTransferred"

\* C14 as stated: the owner's removeAdmin of itself fails as a self-removal
\* and changes nothing, and the owner's admin flag is true in every reachable
\* state.
C14_OwnerAlwaysFlagged ==
    /\ SelfRemovalDenied
    /\ owner # ZeroAddress => admins[owner]

\* No step clears the flag of an identity that is the owner before and after it.
OwnerKeepsFlag ==
    owner' = owner /\ admins[owner] => admins'[owner]

\* C14: the owner's removeAdmin of itself fails as a self-removal and changes
\* nothing, so no step clears the admin flag of an identity while it is the
\* owner, and the deployer's flag, true at initialization, is true as long as
\* ownership has never been transferred or renounced.
C14_OwnerNotLockedOut ==
    /\ [](SelfRemovalDenied /\ (NeverTransferred => owner = Deployer /\ admins[owner]))
    /\ [][OwnerKeepsFlag]_vars

\* The deployer, still the owner, has made a second admin and run an
\* election; its removeAdmin of itself is refused.
C14_Witness ==
    /\ NeverTransferred
    /\ electionCounter >= 1
    /\ \E a \in Callers : a # owner /\ admins[a]
    /\ removeAdmin(S, owner, owner).status = CannotRemoveSelfMsg
    /\ admins[owner]

\* The caller passes the admin check of the three managing functions.
Authorized(sender) == admins[sender] \/ sender = owner

\* The two refusals of a schedule.
InvalidSchedule == {StartInPastMsg, EndBeforeStartMsg}

\* Every createElection of an admin with a start not after the current time
\* or an end not after the start is refused for its schedule, whatever the
\* texts, and leaves the counter, the elections and the log as they were;
\* every stored election ends after it starts.
BadScheduleRefused ==
    /\ \A sender \in Callers, text \in TextCases, start \in Times, end \in Times :
           Authorized(sender) /\ (start <= now \/ end <= start) =>
               LET r == createElection(S, sender, text, start, end, now)
               IN  r.status \in InvalidSchedule /\ r.s = S
    /\ \A e \in 1 .. electionCounter :
           elections[e].endTime > elections[e].startTime

\* A step that creates an election stores a start after the time of the step
\* and an end after the start.
CreatedInFuture ==
    electionCounter' # electionCounter =>
        /\ elections'[electionCounter'].startTime > now
        /\ elections'[electionCounter'].endTime > elections'[electionCounter'].startTime

\* C15: createElection by an admin fails with a schedule error, creating
\* nothing and consuming no id, whenever startTime <= current time or
\* endTime <= startTime, whatever the text fields; so every stored election
\* has endTime > startTime > its creation time.
C15_ScheduleEnforced == [] BadScheduleRefused /\ [][CreatedInFuture]_vars

\* An election is stored, and an admin's createElection is refused once for a
\* start at the current time and once for an end at the start.
C15_Witness ==
    /\ electionCounter >= 1
    /\ now < MaxTime
    /\ \E sender \in Callers :
           /\ createElection(S, sender, <<"Board", "CS", "yearly">>,
                              now, now + 1, now).status = StartInPastMsg
           /\ createElection(S, sender, <<"Board", "CS", "yearly">>,
                              now + 1, now + 1, now).status = EndBeforeStartMsg

\* C16: createElection with an empty title, department or description and
\* addCandidate with an empty name fail and store nothing, so no stored
\* election and no stored candidate has an empty text field.
C16_NoEmptyText ==
    /\ \A sender \in Callers, text \in TextCases, start \in Times, end \in Times :
           (\E i \in 1 .. 3 : text[i] = "") =>
               Refused(createElection(S, sender, text, start, end, now))
    /\ \A sender \in Callers, e \in ElectionIds :
           Refused(addCandidate(S, sender, e, ""))
    /\ \A e \in 1 .. electionCounter :
           /\ elections[e].title # ""
           /\ elections[e].department # ""
           /\ elections[e].description # ""
           /\ \A c \in 1 .. elections[e].candidatesCount :
                  elections[e].candidates[c].name # ""

\* The ElectionCreated events of the log, and the CandidateAdded events of one
\* election, in the order of the log.
CreatedLog == SelectSeq(events, LAMBDA ev : ev.type = "ElectionCreated")
AddedLog(e) ==
    SelectSeq(events, LAMBDA ev : ev.type = "CandidateAdded" /\ ev.electionId = e)

\* The k-th election created has id k and the k-th candidate added to an
\* election has id k there; the written elections are those of ids
\* 1..electionCounter and the written candidates of an election those of ids
\* 1..candidatesCount, each under its own id.
DenseIds ==
    /\ Len(CreatedLog) = electionCounter
    /\ \A k \in 1 .. Len(CreatedLog) : CreatedLog[k].electionId = k
    /\ \A e \in ElectionIds :
           /\ elections[e].id # 0 <=> e \in 1 .. electionCounter
           /\ elections[e].id \in {0, e}
           /\ Len(AddedLog(e)) = elections[e].candidatesCount
           /\ \A k \in 1 .. Len(AddedLog(e)) : AddedLog(e)[k].candidateId = k
           /\ \A k \in CandidateIds :
                  /\ elections[e].candidates[k].id # 0
                         <=> k \in 1 .. elections[e].candidatesCount
                  /\ elections[e].candidates[k].id \in {0, k}

\* A failing createElection or addCandidate takes no id.
NoIdOnFailure ==
    \A sender \in Callers :
        /\ \A text \in TextCases, start \in Times, end \in Times :
               LET r == createElection(S, sender, text, start, end, now)
               IN  r.status # OK => r.s.electionCounter = electionCounter
        /\ \A e \in ElectionIds, name \in NameInputs :
               LET r == addCandidate(S, sender, e, name)
               IN  r.status # OK =>
                       /\ r.s.electionCounter = electionCounter
                       /\ r.s.elections[e].candidatesCount = elections[e].candidatesCount

\* A step that creates an election takes the next id for an active election
\* without candidates and leaves the elections there were as they were; a
\* step that adds a candidate takes the election's next candidate id for a
\* candidate without votes and leaves the candidates there were as they were.
NextIdStep ==
    /\ electionCounter' # electionCounter =>
           /\ electionCounter' = electionCounter + 1
           /\ elections'[electionCounter'].id = electionCounter'
           /\ elections'[electionCounter'].isActive
           /\ elections'[electionCounter'].candidatesCount = 0
           /\ \A e \in 1 .. electionCounter : elections'[e] = elections[e]
    /\ \A e \in 1 .. electionCounter :
           elections'[e].candidatesCount # elections[e].candidatesCount =>
               LET k == elections'[e].candidatesCount
               IN  /\ k = elections[e].candidatesCount + 1
                   /\ elections'[e].candidates[k].id = k
                   /\ elections'[e].candidates[k].voteCount = 0
                   /\ \A j \in CandidateIds \ {k} :
                          elections'[e].candidates[j] = elections[e].candidates[j]
    /\ \A e \in 1 .. electionCounter :
           events' # events /\ Len(AddedLog(e)') > Len(AddedLog(e)) =>
               elections'[e].candidatesCount # elections[e].candidatesCount

\* C17: ids are dense and never reused: the k-th successful createElection
\* yields id k with isActive true and candidatesCount 0, the k-th successful
\* addCandidate on an election yields candidate id k with voteCount 0 and
\* candidatesCount k; failed calls take no id and nothing existing is
\* overwritten; the existing elections are the ids 1..electionCounter and an
\* election's candidates the ids 1..candidatesCount.
C17_DenseIds == [](DenseIds /\ NoIdOnFailure) /\ [][NextIdStep]_vars

\* Two elections exist and the first has two candidates.
C17_Witness ==
    /\ electionCounter = 2
    /\ elections[1].candidatesCount = 2
    /\ elections[2].id = 2 /\ elections[1].candidates[2].id = 2

\* The ElectionClosed events of one election: its successful closeElection
\* calls so far.
ClosedLog(e) ==
    SelectSeq(events, LAMBDA ev : ev.type = "ElectionClosed" /\ ev.electionId = e)

\* What closeElection of an admin on an existing election answers: still
\* active up to endTime; after it, success for the first call, which clears
\* isActive, logs the closure and changes nothing else, and not active for
\* every call after a successful one.
CloseAnswer(sender, e) ==
    LET r == closeElection(S, sender, e, now)
    IN  IF now <= elections[e].endTime
            THEN r = Revert(S, StillActiveMsg)
        ELSE IF ClosedLog(e) = << >>
            THEN r = Commit([S EXCEPT !.elections[e].isActive = FALSE,
                                      !.events = Append(@, ElectionClosed(e))])
        ELSE r = Revert(S, NotActiveMsg)

\* C18: closeElection by an admin on an existing election fails as still
\* active at any time <= endTime, succeeds at the first call at a time >
\* endTime, setting isActive false and changing nothing else, and fails as
\* closed at every later call: at most one closeElection succeeds per
\* election.
C18_CloseOnce ==
    \A e \in 1 .. electionCounter :
        /\ Len(ClosedLog(e)) <= 1
        /\ \A sender \in Callers : Authorized(sender) => CloseAnswer(sender, e)

\* An election has been closed and a second closeElection on it is refused,
\* while another election, not yet closed, can be closed.
C18_Witness ==
    /\ electionCounter = 2
    /\ Len(ClosedLog(1)) = 1 /\ ~elections[1].isActive
    /\ closeElection(S, owner, 1, now).status = NotActiveMsg
    /\ closeElection(S, owner, 2, now).status = OK

\* The fields of an election that are fixed at its creation.
Fixed(el) == <<el.id, el.title, el.department, el.description, el.startTime, el.endTime>>

\* A step leaves the fixed fields of every existing election as they were and
\* never sets isActive where it was false.
ElectionFieldsStep ==
    \A e \in 1 .. electionCounter :
        /\ Fixed(elections'[e]) = Fixed(elections[e])
        /\ elections'[e].isActive => elections[e].isActive

\* C19: the id, title, department, description, startTime and endTime of an
\* election never change after its creation; isActive changes only from true
\* to false, and once false it stays false.
C19_FieldsImmutable == [][ElectionFieldsStep]_vars

\* An election that has been closed stands beside one that is still active.
C19_Witness ==
    /\ electionCounter = 2
    /\ ~elections[1].isActive /\ elections[2].isActive
    /\ elections[1].candidatesCount >= 1

\* Every addCandidate of an admin or of the owner on the election, whatever
\* the name, is refused as not active and leaves the ledger, candidatesCount
\* included, as it was.
NoMoreCandidates(e) ==
    \A sender \in Callers, name \in NameInputs \cup {"Bob"} :
        Authorized(sender) => addCandidate(S, sender, e, name) = Revert(S, NotActiveMsg)

\* C20: once closeElection has succeeded on an election, every later
\* addCandidate on it, by any admin or the owner and at any time, fails as
\* closed and leaves candidatesCount unchanged.
C20_ClosedNoCandidates ==
    \A e \in 1 .. electionCounter : ClosedLog(e) # << >> => NoMoreCandidates(e)

\* A closed election with a candidate and room for another: the owner's and
\* an admin's addCandidate are refused, while that on an open election is not.
C20_Witness ==
    /\ electionCounter = 2
    /\ ClosedLog(1) # << >> /\ ClosedLog(2) = << >>
    /\ elections[1].candidatesCount = 1
    /\ \E sender \in Callers :
           /\ sender # owner /\ admins[sender]
           /\ addCandidate(S, sender, 1, "Ann").status = NotActiveMsg
           /\ addCandidate(S, owner, 1, "Ann").status = NotActiveMsg
           /\ addCandidate(S, owner, 2, "Ann").status = OK

\* C21: addCandidate is gated by the stored isActive flag and not by the
\* time window: on an existing election whose isActive is true, an admin's
\* addCandidate with a non-empty name succeeds whatever the time is, before
\* startTime, inside the window with votes cast, and after endTime as long as
\* the election has not been closed.
C21_CandidatesWhileActive ==
    \A e \in 1 .. electionCounter, sender \in Callers :
        Authorized(sender) /\ elections[e].isActive =>
            LET r == addCandidate(S, sender, e, "Ann")
            IN  /\ r.status = OK
                /\ r.s.elections[e].candidatesCount = elections[e].candidatesCount + 1

\* Past the end of an election that has not been closed, a candidate has
\* been added after a vote was cast, and one more can still be added.
C21_Witness ==
    \E e \in 1 .. electionCounter :
        /\ now > elections[e].endTime /\ elections[e].isActive
        /\ \E i, j \in DOMAIN events :
               /\ i < j
               /\ events[i].type = "Voted" /\ events[i].electionId = e
               /\ events[j].type = "CandidateAdded" /\ events[j].electionId = e
        /\ addCandidate(S, owner, e, "Ann").status = OK

\* A step keeps every vote flag that is set, keeps every history as a prefix
\* of what it becomes, and lowers no tally.
VotesKeptStep ==
    /\ \A v \in Addresses, e \in ElectionIds : userVotes[v][e] => userVotes'[v][e]
    /\ \A v \in Addresses :
           /\ Len(userVoteHistory'[v]) >= Len(userVoteHistory[v])
           /\ SubSeq(userVoteHistory'[v], 1, Len(userVoteHistory[v])) = userVoteHistory[v]
    /\ \A e \in ElectionIds, c \in CandidateIds :
           elections'[e].candidates[c].voteCount >= elections[e].candidates[c].voteCount

\* C22: recorded votes are never altered or erased: in every step a vote flag
\* never goes from true to false, each voter's history only grows at its end
\* with the earlier entries in place and unchanged, and no candidate's
\* voteCount decreases.
C22_VotesNeverErased == [][VotesKeptStep]_vars

\* A voter has voted in two elections: the second vote left the flag, the
\* history entry and the tally of the first in place.
C22_Witness ==
    \E v \in Callers :
        /\ Len(userVoteHistory[v]) = 2
        /\ userVotes[v][1] /\ userVotes[v][2]
        /\ \E c \in CandidateIds : elections[1].candidates[c].voteCount >= 1

\* The log after a call: with the call's event at its end if the call
\* succeeded, as it was if the call failed.
LogAfter(r, ev) == r.s.events = IF r.status = OK THEN Append(events, ev) ELSE events

\* Every createElection, addCandidate, vote and closeElection on the ledger as
\* it is leaves the log as LogAfter says, the event carrying the ids of what
\* the call committed.
OneEventPerCall ==
    \A sender \in Callers :
        /\ \A text \in TextCases, start \in Times, end \in Times :
               LET r == createElection(S, sender, text, start, end, now)
               IN  LogAfter(r, ElectionCreated(r.s.electionCounter, text[1]))
        /\ \A e \in ElectionIds :
               /\ \A name \in NameInputs :
                      LET r == addCandidate(S, sender, e, name)
                      IN  LogAfter(r, CandidateAdded(e, r.s.elections[e].candidatesCount, name))
               /\ \A c \in CandidateIds :
                      LogAfter(vote(S, sender, e, c, now), Voted(e, c, sender))
               /\ LogAfter(closeElection(S, sender, e, now), ElectionClosed(e))

\* The storage of elections and votes.
Storage == <<electionCounter, elections, userVotes, userVoteHistory>>

\* A step appends at most one event and leaves the earlier ones in place; a
\* step that changes the storage of elections and votes appends one of the
\* four events.
OneEventPerStep ==
    /\ Len(events') <= Len(events) + 1
    /\ SubSeq(events', 1, Len(events)) = events
    /\ Storage' # Storage =>
           /\ Len(events') = Len(events) + 1
           /\ events'[Len(events')].type \in
                  {"ElectionCreated", "CandidateAdded", "Voted", "ElectionClosed"}

\* C23: each successful createElection, addCandidate, vote and closeElection
\* appends exactly one event to the ordered log (ElectionCreated,
\* CandidateAdded, Voted, ElectionClosed) carrying the ids of the change just
\* committed, in commit order; a failed operation appends none.
C23_OneEventPerCommit == [] OneEventPerCall /\ [][OneEventPerStep]_vars

\* The log holds the four events of one election in the order of its life:
\* created, candidate added, voted, closed.
C23_Witness ==
    /\ Len(events) = 5
    /\ events[2] = ElectionCreated(1, "Board")
    /\ events[3].type = "CandidateAdded"
    /\ events[4].type = "Voted" /\ events[4].candidateId = 1
    /\ events[5] = ElectionClosed(1)

\* The Voted events of the log that name a candidate of an election.
VotedLog(e, c) ==
    SelectSeq(events, LAMBDA ev :
        ev.type = "Voted" /\ ev.electionId = e /\ ev.candidateId = c)

\* C24: the ledger is what a replay of the log gives: the elections are those
\* with an ElectionCreated event, candidatesCount of an election is the number
\* of its CandidateAdded events, each candidate's voteCount is the number of
\* Voted events naming it, hasUserVoted(E, V) holds iff a Voted event of V in
\* E exists, and isActive of an election is false iff an ElectionClosed event
\* of it exists.
C24_LogReplay ==
    \A e \in ElectionIds :
        /\ electionExists(S, e) <=> \E k \in DOMAIN CreatedLog : CreatedLog[k].electionId = e
        /\ elections[e].candidatesCount = Len(AddedLog(e))
        /\ \A c \in CandidateIds :
               elections[e].candidates[c].voteCount = Len(VotedLog(e, c))
        /\ \A v \in Addresses : hasUserVoted(S, e, v) <=> VotedEvents(v, e) # {}
        /\ electionExists(S, e) => (~elections[e].isActive <=> ClosedLog(e) # << >>)

\* A closed election with one candidate added and one vote for it.
C24_Witness ==
    /\ ClosedLog(1) # << >> /\ ~elections[1].isActive
    /\ Len(AddedLog(1)) = 1
    /\ Len(VotedLog(1, 1)) = 1
    /\ \E v \in Callers : hasUserVoted(S, 1, v)

\* C25: getElection of an id that was never created (0 and
\* electionCounter + 1 included) and getCandidate of an unknown election or
\* of a candidate id outside 1..candidatesCount fail instead of returning a
\* record; for known ids they return the stored values and do not fail.
C25_UnknownIdsNotFound ==
    \A e \in ElectionIds :
        /\ IF e \in 1 .. electionCounter
               THEN getElection(S, e).status = OK /\ getElection(S, e).value[1] = e
               ELSE getElection(S, e).status # OK
        /\ \A c \in CandidateIds :
               IF e \in 1 .. electionCounter /\ c \in 1 .. elections[e].candidatesCount
                   THEN /\ getCandidate(S, e, c).status = OK
                        /\ getCandidate(S, e, c).value[1] = c
                   ELSE getCandidate(S, e, c).status # OK

\* The events of a log with the number of times each is there.
EventBag(log) ==
    [ev \in {log[i] : i \in DOMAIN log} |-> Cardinality({i \in DOMAIN log : log[i] = ev})]

\* Two ledgers with the same storage and the same events, whatever the order
\* in which the two calls reached the log.
SameLedger(x, y) ==
    /\ [x EXCEPT !.events = << >>] = [y EXCEPT !.events = << >>]
    /\ EventBag(x.events) = EventBag(y.events)

\* Calls a and b made from the same ledger, ab being b made after a and ba
\* being a made after b: each call has the outcome it has alone, and the two
\* orders end in the same ledger.
Commute(a, b, ab, ba) ==
    /\ ab.status = b.status
    /\ ba.status = a.status
    /\ SameLedger(ab.s, ba.s)

\* The calls the claim speaks about: a vote, an addCandidate, a closeElection.
VoteCalls ==
    [op : {"vote"}, sender : Callers, e : ElectionIds, c : CandidateIds, name : {""}]
ManagingCalls ==
    [op : {"addCandidate"}, sender : Callers, e : ElectionIds, c : {0}, name : NameInputs]
        \cup [op : {"closeElection"}, sender : Callers, e : ElectionIds, c : {0}, name : {""}]

\* The outcome of a call made on ledger s at the current time.
Apply(s, k) ==
    CASE k.op = "vote" -> vote(s, k.sender, k.e, k.c, now)
      [] k.op = "addCandidate" -> addCandidate(s, k.sender, k.e, k.name)
      [] k.op = "closeElection" -> closeElection(s, k.sender, k.e, now)

\* Two votes of different voters, or a vote in one election and a managing
\* call on another.
Unrelated(k1, k2) ==
    IF k1.op = "vote" /\ k2.op = "vote" THEN k1.sender # k2.sender
    ELSE (k1.op = "vote" \/ k2.op = "vote") /\ k1.e # k2.e

\* The calls that succeed on the ledger as it is.  Two calls that both fail
\* leave the ledger as it was, in either order.
Succeeding == { k \in VoteCalls \cup ManagingCalls : Apply(S, k).status = OK }

\* C26: operations on different voters or different elections are
\* independent: two votes of different voters, in the same election or not,
\* made at the same time in either order from the same state have the same
\* outcomes and end in the same state, and so do a vote in one election and
\* an addCandidate or closeElection on another.
C26_Independent ==
    [](\A k1 \in Succeeding, k2 \in VoteCalls \cup ManagingCalls :
           Unrelated(k1, k2) =>
               LET a == Apply(S, k1)
                   b == Apply(S, k2)
               IN  Commute(a, b, Apply(a.s, k2), Apply(b.s, k1)))

\* One election is open for voting while another is past its end and not yet
\* closed: two voters can vote in the first, for different candidates, and a
\* vote there and the closing of the other both succeed.
C26_Witness ==
    /\ electionCounter = 2
    /\ elections[1].candidatesCount = 2
    /\ vote(S, Deployer, 1, 1, now).status = OK
    /\ vote(S, "alice", 1, 2, now).status = OK
    /\ closeElection(S, Deployer, 2, now).status = OK
    /\ addCandidate(S, Deployer, 2, "Ann").status = OK

\* C27: in every reachable state an existing election whose isActive is
\* false has the current time after its endTime, so a vote in it fails as
\* ended, and no vote, in any election, fails as not active.
C27_NeverClosedEarly ==
    /\ \A e \in 1 .. electionCounter :
           ~elections[e].isActive =>
               /\ now > elections[e].endTime
               /\ \A v \in Callers, c \in CandidateIds :
                      vote(S, v, e, c, now).status = EndedMsg
    /\ \A v \in Callers, e \in ElectionIds, c \in CandidateIds :
           vote(S, v, e, c, now).status # NotActiveMsg

\* A closed election with a candidate and a voter who has not voted in it:
\* the vote fails as ended.
C27_Witness ==
    \E e \in 1 .. electionCounter, v \in Callers :
        /\ ~elections[e].isActive /\ ClosedLog(e) # << >>
        /\ elections[e].candidatesCount >= 1
        /\ ~userVotes[v][e]
        /\ vote(S, v, e, 1, now).status = EndedMsg

\* The positions of a voter's history that hold an entry of the election.
EntriesOf(v, e) ==
    { i \in DOMAIN userVoteHistory[v] : userVoteHistory[v][i].electionId = e }

\* C28: the vote flag and the vote history agree: hasUserVoted(E, V) is true
\* iff V's history holds exactly one entry of election E, no history holds
\* two entries of one election, and getUserTotalVotes(V) is the number of
\* elections for which V's flag is true.
C28_FlagMatchesHistory ==
    \A v \in Addresses :
        /\ \A e \in ElectionIds :
               /\ Cardinality(EntriesOf(v, e)) <= 1
               /\ hasUserVoted(S, e, v) <=> Cardinality(EntriesOf(v, e)) = 1
        /\ getUserTotalVotes(S, v) = Cardinality({ e \in ElectionIds : userVotes[v][e] })

\* One voter has voted in two elections and another in none.
C28_Witness ==
    \E v, u \in Callers :
        /\ getUserTotalVotes(S, v) = 2
        /\ getUserTotalVotes(S, u) = 0
        /\ hasUserVoted(S, 1, v) /\ hasUserVoted(S, 2, v) /\ ~hasUserVoted(S, 1, u)

\* The recorded result of an election: its tallies, the flags of its voters
\* and the history entries that name it, each with its voter and position.
ResultOf(e) ==
    <<[c \in CandidateIds |-> elections[e].candidates[c].voteCount],
      [v \in Addresses |-> userVotes[v][e]],
      [v \in Addresses |-> [i \in EntriesOf(v, e) |-> userVoteHistory[v][i]]]>>

\* A step taken after the end of an election, or after its closing, leaves
\* its result as it was; one taken after its closing leaves its
\* candidatesCount too.
FinalStep ==
    \A e \in 1 .. electionCounter :
        /\ now > elections[e].endTime \/ ClosedLog(e) # << >> => ResultOf(e)' = ResultOf(e)
        /\ ClosedLog(e) # << >> =>
               elections'[e].candidatesCount = elections[e].candidatesCount

\* C29: results are final after closing: once closeElection has succeeded on
\* an election, and more generally at every time after its endTime, no later
\* operation changes a candidate's voteCount in it, a vote flag for it or the
\* history entries that name it; after the close its candidatesCount is
\* frozen too.
C29_ResultsFinal == [][FinalStep]_vars

\* An election with a vote is past its end, and a vote has been cast since
\* then in another election that is still open.
C29_Witness ==
    \E e, f \in 1 .. electionCounter :
        /\ e # f
        /\ now > elections[e].endTime
        /\ \E c \in CandidateIds : elections[e].candidates[c].voteCount >= 1
        /\ \E v \in Callers :
               \E i \in EntriesOf(v, f) :
                   userVoteHistory[v][i].timestamp > elections[e].endTime

\* C30: every recorded vote is well-formed: each history entry names an
\* existing election and carries a timestamp inside that election's window,
\* the entries of one history are in non-decreasing order of timestamp, and
\* no vote flag is true for an election that does not exist.
C30_WellFormedVotes ==
    \A v \in Addresses :
        /\ \A i \in DOMAIN userVoteHistory[v] :
               LET h == userVoteHistory[v][i]
               IN  /\ h.electionId \in 1 .. electionCounter
                   /\ elections[h.electionId].startTime <= h.timestamp
                   /\ h.timestamp <= elections[h.electionId].endTime
                   /\ \A j \in DOMAIN userVoteHistory[v] :
                          i < j => h.timestamp <= userVoteHistory[v][j].timestamp
        /\ \A e \in ElectionIds \ (1 .. electionCounter) : ~userVotes[v][e]

\* A voter has voted in two elections that end at different times, the second
\* vote at a later time than the first.
C30_Witness ==
    \E v \in Callers :
        /\ Len(userVoteHistory[v]) = 2
        /\ userVoteHistory[v][1].timestamp < userVoteHistory[v][2].timestamp
        /\ elections[userVoteHistory[v][1].electionId].endTime
               # elections[userVoteHistory[v][2].electionId].endTime

====
